---- MODULE Spec2Model ----
(***************************************************************************)
(* Model of backend/main.py: the SSE relay stream_price_data (an async     *)
(* generator, one instance per client request), the HTTP handler           *)
(* stream_prices that creates it, and the record normalisation done inside *)
(* the streaming loop.                                                     *)
(*                                                                         *)
(* Python values are tagged records ([t |-> "None"], [t |-> "int", ...]),  *)
(* Python strings whose contents matter (failure messages, the symbols     *)
(* query parameter) are sequences of one-character strings, and floats are *)
(* exact decimals m * 10^e.  A generator is suspended at a yield or at the *)
(* await of the next record; pc names the source line it is suspended at.  *)
(***************************************************************************)
EXTENDS Integers, Sequences, FiniteSets, TLC

\* ---------------------------------------------------------------- bounds
\* Records the upstream delivers to all sessions together.
MaxRecords == 2

Sessions == {1, 2}

\* ------------------------------------------------------- Python strings
UpperChars == <<"A","B","C","D","E","F","G","H","I","J","K","L","M",
                "N","O","P","Q","R","S","T","U","V","W","X","Y","Z">>
LowerChars == <<"a","b","c","d","e","f","g","h","i","j","k","l","m",
                "n","o","p","q","r","s","t","u","v","w","x","y","z">>

\* str.lower() on one character
LowerChar(c) ==
  IF \E i \in 1..Len(UpperChars) : UpperChars[i] = c
  THEN LowerChars[CHOOSE i \in 1..Len(UpperChars) : UpperChars[i] = c]
  ELSE c

\* str.lower()
Lower(s) == [i \in 1..Len(s) |-> LowerChar(s[i])]

\* the Python operator  sub in s
Contains(s, sub) ==
  \E i \in 0..(Len(s) - Len(sub)) : SubSeq(s, i + 1, i + Len(sub)) = sub

AuthenticationFailedText ==
  <<"a","u","t","h","e","n","t","i","c","a","t","i","o","n"," ",
    "f","a","i","l","e","d">>
CramText == <<"c","r","a","m">>
NoneTypeText == <<"n","o","n","e","t","y","p","e">>
AwaitText == <<"a","w","a","i","t">>

\* Failure messages the upstream collaborator raises with (str(e)).
MsgAuthMixed ==
  <<"A","u","t","h","e","n","t","i","c","a","t","i","o","n"," ",
    "F","A","I","L","E","D",":"," ","k","e","y">>
MsgCram == <<"C","R","A","M"," ","r","e","p","l","y">>
MsgNoneType ==
  <<"'","N","o","n","e","T","y","p","e","'"," ","o","b","j","e","c","t">>
MsgAwaitAuth ==
  <<"a","w","a","i","t"," ","a","u","t","h","e","n","t","i","c","a","t",
    "i","o","n"," ","f","a","i","l","e","d">>
MsgTimeout == <<"t","i","m","e","d"," ","o","u","t">>

Messages == {MsgAuthMixed, MsgNoneType, MsgTimeout}
IterationMessages == {MsgAuthMixed, MsgTimeout}
AllMessages == {MsgAuthMixed, MsgCram, MsgNoneType, MsgAwaitAuth, MsgTimeout}

\* ------------------------------------------------------- Python values
PyNone == [t |-> "None"]
Absent == [t |-> "absent"]            \* hasattr(obj, name) is False
PyStr(s) == [t |-> "str", v |-> s]
WallClock == [t |-> "datetime"]       \* datetime.now()

\* A Python int or float is the number m * 10^e, with m not divisible by 10
\* unless it is 0; t is "int" or "float".
RECURSIVE Normalize(_)
Normalize(x) ==
  IF x.m = 0 THEN [t |-> x.t, m |-> 0, e |-> 0]
  ELSE IF x.m % 10 = 0 THEN Normalize([t |-> x.t, m |-> x.m \div 10, e |-> x.e + 1])
  ELSE x

PyInt(m, e) == Normalize([t |-> "int", m |-> m, e |-> e])
PyFloat(m, e) == Normalize([t |-> "float", m |-> m, e |-> e])
IsNumber(v) == v.t \in {"int", "float"}

FixedPointThreshold == 1000000
FixedPointScaleExp == 9

\* m * 10^e > n, for e >= 0 and n >= 0
RECURSIVE GtScaledUp(_, _, _)
GtScaledUp(m, e, n) ==
  IF m > n THEN TRUE
  ELSE IF e = 0 \/ m <= 0 THEN FALSE
  ELSE GtScaledUp(m * 10, e - 1, n)

\* m > n * 10^k, for k >= 0 and n >= 0
RECURSIVE GtScaledDown(_, _, _)
GtScaledDown(m, k, n) ==
  IF m <= n THEN FALSE
  ELSE IF k = 0 THEN TRUE
  ELSE IF n > 214748364 THEN FALSE      \* n * 10 exceeds every m of the model
  ELSE GtScaledDown(m, k - 1, n * 10)

\* mutant: the comparison made inclusive
ExceedsThresholdInclusive(x) ==
  IF x.e >= 0 THEN GtScaledUp(x.m, x.e, FixedPointThreshold - 1)
  ELSE GtScaledDown(x.m, 0 - x.e, FixedPointThreshold - 1)

\* mutant: the threshold a thousand times lower
ExceedsThousand(x) ==
  IF x.e >= 0 THEN GtScaledUp(x.m, x.e, 1000)
  ELSE GtScaledDown(x.m, 0 - x.e, 1000)

\* value > 1000000 on floats
ExceedsThreshold(x) ==
  IF x.e >= 0 THEN GtScaledUp(x.m, x.e, FixedPointThreshold)
  ELSE GtScaledDown(x.m, 0 - x.e, FixedPointThreshold)

\* value / 1e9
DivideByScale(x) == PyFloat(x.m, x.e - FixedPointScaleExp)

\* float(raw): a number converts, a non-numeric string raises ValueError.
MsgValueError ==
  <<"c","o","u","l","d"," ","n","o","t"," ","c","o","n","v","e","r","t">>
MsgNoHd == <<"n","o"," ","a","t","t","r","i","b","u","t","e"," ","h","d">>
MsgInvalidLiteral ==
  <<"i","n","v","a","l","i","d"," ","l","i","t","e","r","a","l">>

FloatRaises(raw) == ~IsNumber(raw)
Float(raw) == [t |-> "float", m |-> raw.m, e |-> raw.e]

\* the price decoding of one side: lines 152-160 (bid), 162-170 (ask)
DecodePriceValue(value) ==
  IF ExceedsThreshold(value) THEN DivideByScale(value) ELSE value

DecodePrice(raw) ==
  IF raw # PyNone THEN DecodePriceValue(Float(raw)) ELSE PyNone

\* bool(v)
Truthy(v) ==
  CASE v.t = "None" -> FALSE
    [] IsNumber(v) -> v.m # 0
    [] v.t = "str" -> v.v # ""
    [] OTHER -> TRUE

RECURSIVE Pow10(_)
Pow10(k) == IF k = 0 THEN 1 ELSE 10 * Pow10(k - 1)

\* int(v): truncation toward zero of a number; a non-numeric string raises.
IntRaises(v) == v.t = "str"
Int_(v) ==
  IF v.e >= 0 THEN PyInt(v.m, v.e)
  ELSE IF v.m >= 0 THEN PyInt(v.m \div Pow10(0 - v.e), 0)
  ELSE PyInt(0 - ((0 - v.m) \div Pow10(0 - v.e)), 0)

\* int(level.x_sz) if hasattr(level, 'x_sz') and level.x_sz else None
SizeRaises(sz) == sz # Absent /\ Truthy(sz) /\ IntRaises(sz)
\* the size decoding without the truthiness test: int(level.x_sz) whenever
\* the attribute holds a value
DecodeSizeKeepsZero(sz) ==
  IF sz # Absent /\ sz # PyNone THEN Int_(sz) ELSE PyNone
DecodeSize(sz) == IF sz # Absent /\ Truthy(sz) THEN Int_(sz) ELSE PyNone

\* level.x_px if hasattr(level, 'x_px') else None
RawPrice(px) == IF px # Absent THEN px ELSE PyNone

\* str(v)
Str(v) ==
  CASE v.t = "str" -> v.v
    [] v.t = "int" -> ToString(v.m * Pow10(v.e))
    [] v.t = "datetime" -> "<now>"
    [] OTHER -> "None"

\* ------------------------------------------------------ upstream records
QuoteTradeTypes == {"MBP1Msg", "MBPMsg", "TradeMsg"}

\* hasattr(record, 'levels') and record.levels and len(record.levels) > 0
HasLevel(record) ==
  /\ record.levels # Absent
  /\ record.levels # PyNone
  /\ Len(record.levels.items) > 0

\* getattr(record, 'symbol', getattr(record, 'instrument_id', 'UNKNOWN'))
ResolveSymbol(record) ==
  IF record.symbol # Absent THEN record.symbol
  ELSE IF record.instrument_id # Absent THEN record.instrument_id
  ELSE PyStr("UNKNOWN")

\* getattr(record, 'ts_event', getattr(record.hd, 'ts_event', datetime.now()))
\* Python evaluates the default argument, and so record.hd, first.
TimestampRaises(record) == record.hd = Absent
ResolveTimestamp(record) ==
  IF record.ts_event # Absent THEN record.ts_event
  ELSE IF record.hd.ts_event # Absent THEN record.hd.ts_event
  ELSE WallClock

\* ------------------------------------------- per-record processing
\* The body of the loop, lines 118-201.  The result says what the loop does
\* with the record: "continue" (nothing written), "tick" (the dict written
\* at line 188) or "raise" (the exception caught at line 195).
Raise(msg) == [out |-> "raise", msg |-> msg]

TickData(record, bid_price, ask_price, bid_size, ask_size) ==
  [symbol |-> Str(ResolveSymbol(record)),
   timestamp |-> Str(ResolveTimestamp(record)),
   bid_price |-> bid_price,
   ask_price |-> ask_price,
   bid_size |-> bid_size,
   ask_size |-> ask_size,
   received_at |-> Str(WallClock),
   record_type |-> record.type]

\* lines 143-173, for a record that has a first level
DecodeLevel(record) ==
  LET level == record.levels.items[1]
      raw_bid == RawPrice(level.bid_px)
      raw_ask == RawPrice(level.ask_px)
  IN  IF raw_bid # PyNone /\ FloatRaises(raw_bid) THEN Raise(MsgValueError)
      ELSE IF raw_ask # PyNone /\ FloatRaises(raw_ask) THEN Raise(MsgValueError)
      ELSE IF SizeRaises(level.bid_sz) THEN Raise(MsgInvalidLiteral)
      ELSE IF SizeRaises(level.ask_sz) THEN Raise(MsgInvalidLiteral)
      ELSE [out |-> "tick",
            data |-> TickData(record, DecodePrice(raw_bid), DecodePrice(raw_ask),
                              DecodeSize(level.bid_sz), DecodeSize(level.ask_sz))]

\* lines 130-188
ProcessQuoteTrade(record) ==
  IF TimestampRaises(record) THEN Raise(MsgNoHd)
  ELSE IF HasLevel(record) THEN DecodeLevel(record)
  ELSE [out |-> "tick", data |-> TickData(record, PyNone, PyNone, PyNone, PyNone)]

\* mutant: the else branch builds a Tick as well
ProcessRecordTicksUnhandled(record) ==
  IF record.type = "SymbolMappingMsg" THEN [out |-> "continue"]
  ELSE ProcessQuoteTrade(record)

\* lines 123-193
ProcessRecord(record) ==
  IF record.type = "SymbolMappingMsg" THEN [out |-> "continue"]
  ELSE IF record.type \in QuoteTradeTypes THEN ProcessQuoteTrade(record)
  ELSE [out |-> "continue"]

\* ------------------------------------------------------- emitted events
\* The JSON object of each event, without its wall-clock "timestamp".
ConfigErrorData ==
  [error |-> "DATABENTO_API_KEY environment variable not set",
   details |-> "Please set DATABENTO_API_KEY environment variable to use the live data stream"]

StatusData(symbols) ==
  [status |-> "connected",
   message |-> "Connected to DataBento, waiting for price data...",
   symbols |-> symbols]

TestData == [test |-> "SSE connection working"]

RecordErrorData(msg) == [error |-> "Record processing error: ", arg |-> msg]

IterationErrorData(msg) == [error |-> "Iteration error: ", arg |-> msg]

AuthSolutions ==
  <<"Verify your API key is correct",
    "Ensure your key has live data access permissions",
    "Check if your key is for live data (not just historical)",
    "Contact DataBento support if key appears valid">>

InitSolutions ==
  <<"Check if your API key has live data permissions",
    "Verify the dataset and schema are correct",
    "Ensure symbols are valid for the dataset",
    "Check DataBento service status">>

\* mutant: the initialisation indicators are looked for first
DetailedErrorInitFirst(error_msg) ==
  IF \/ Contains(Lower(error_msg), NoneTypeText)
     \/ Contains(Lower(error_msg), AwaitText)
  THEN [error |-> "DataBento Client Initialization Failed",
        details |-> "Client object is None, likely due to subscription failure",
        solutions |-> InitSolutions]
  ELSE IF \/ Contains(Lower(error_msg), AuthenticationFailedText)
          \/ Contains(Lower(error_msg), CramText)
  THEN [error |-> "DataBento Authentication Failed",
        details |-> "Invalid API key or insufficient permissions for live data",
        solutions |-> AuthSolutions]
  ELSE [error |-> "DataBento API error: ", arg |-> error_msg]

\* lines 212-244: the error object of the outer handler
DetailedError(error_msg) ==
  IF \/ Contains(Lower(error_msg), AuthenticationFailedText)
     \/ Contains(Lower(error_msg), CramText)
  THEN [error |-> "DataBento Authentication Failed",
        details |-> "Invalid API key or insufficient permissions for live data",
        solutions |-> AuthSolutions]
  ELSE IF \/ Contains(Lower(error_msg), NoneTypeText)
          \/ Contains(Lower(error_msg), AwaitText)
  THEN [error |-> "DataBento Client Initialization Failed",
        details |-> "Client object is None, likely due to subscription failure",
        solutions |-> InitSolutions]
  ELSE [error |-> "DataBento API error: ", arg |-> error_msg]

\* ------------------------------------------------ the symbols parameter
RECURSIVE Split(_)
\* str.split(",")
Split(s) ==
  IF \E i \in 1..Len(s) : s[i] = ","
  THEN LET i == CHOOSE j \in 1..Len(s) :
                  s[j] = "," /\ \A k \in 1..(j - 1) : s[k] # ","
       IN  <<SubSeq(s, 1, i - 1)>> \o Split(SubSeq(s, i + 1, Len(s)))
  ELSE <<s>>

RECURSIVE LStrip(_)
LStrip(s) == IF s # <<>> /\ s[1] = " " THEN LStrip(Tail(s)) ELSE s

RECURSIVE RStrip(_)
RStrip(s) ==
  IF s # <<>> /\ s[Len(s)] = " " THEN RStrip(SubSeq(s, 1, Len(s) - 1)) ELSE s

\* str.strip()
Strip(s) == RStrip(LStrip(s))

\* line 300: [s.strip() for s in symbols.split(",")]
SymbolList(symbols) == [i \in 1..Len(Split(symbols)) |-> Strip(Split(symbols)[i])]

\* Values of the symbols query parameter: "ES, NQ" and "".
Queries == {<<"E","S",","," ","N","Q">>, <<>>}

\* --------------------------------------------- inputs of the sessions
Hd(ts) == [t |-> "hd", ts_event |-> ts]
Levels(items) == [t |-> "list", items |-> items]
Level(bid_px, ask_px, bid_sz, ask_sz) ==
  [bid_px |-> bid_px, ask_px |-> ask_px, bid_sz |-> bid_sz, ask_sz |-> ask_sz]
Record(type, symbol, instrument_id, ts_event, hd, levels) ==
  [type |-> type, symbol |-> symbol, instrument_id |-> instrument_id,
   ts_event |-> ts_event, hd |-> hd, levels |-> levels]

RecMapping ==
  Record("SymbolMappingMsg", Absent, PyInt(7, 0), PyInt(101, 0), Hd(PyInt(101, 0)), Absent)
RecSystem ==
  Record("SystemMsg", Absent, Absent, PyInt(101, 0), Hd(PyInt(101, 0)), Absent)
\* bid 4500.25 in fixed point, ask 4500.5 plain, bid size 3, ask size 0
RecQuote ==
  Record("MBP1Msg", PyStr("ESZ5"), PyInt(7, 0), PyInt(101, 0), Hd(PyInt(202, 0)),
         Levels(<<Level(PyInt(450025, 7), PyFloat(45005, -1), PyInt(3, 0), PyInt(0, 0))>>))
\* no levels attribute, event time only in the header
RecTrade ==
  Record("TradeMsg", Absent, PyInt(7, 0), Absent, Hd(PyInt(202, 0)), Absent)
\* empty levels list, no event time anywhere
RecEmptyBook ==
  Record("MBPMsg", Absent, Absent, Absent, Hd(Absent), Levels(<<>>))
\* record-level event time, no hd attribute
RecNoHeader ==
  Record("TradeMsg", PyStr("ESZ5"), Absent, PyInt(101, 0), Absent, Absent)
SessionRecords ==
  {RecMapping, RecSystem, RecQuote, RecTrade, RecEmptyBook, RecNoHeader}

\* Values of the DATABENTO_API_KEY environment variable (line 34).
Placeholder == PyStr("your-api-key-here")
ValidKey == PyStr("db-0123456789abcdef")
Keys == {PyNone, PyStr(""), Placeholder, ValidKey}

\* ------------------------------------------------------------- state
VARIABLES
  DATABENTO_API_KEY,  \* module global, line 34
  pc,                 \* per session: where the request / generator stands
  symbol_list,        \* per session: the argument of stream_price_data
  emitted,            \* per session: events yielded so far, [data, rec]
  pulled,             \* per session: records the loop has received
  client,             \* per session: db.Live not called ("none"), raised
                      \* ("failed"), "created", or created and "subscribed"
  subscribeCalls,     \* per session: calls of client.subscribe
  raised,             \* per session: the last exception, [where, msg]
  exit,               \* per session: how the request ended
  record_in,          \* normalisation alone: the record handed to the loop body
  result,             \* normalisation alone: what the loop body did with it
  replay,             \* normalisation alone: the loop body on the decoded prices
  error_in,           \* classification alone: how the exception's message is made up
  detailed_error      \* classification alone: the error object built from it

sessionVars == <<DATABENTO_API_KEY, pc, symbol_list, emitted, pulled, client,
                 subscribeCalls, raised, exit>>
normVars == <<record_in, result, replay, error_in, detailed_error>>

vars == <<DATABENTO_API_KEY, pc, symbol_list, emitted, pulled, client,
          subscribeCalls, raised, exit, record_in, result, replay, error_in,
          detailed_error>>

\* pc values: "idle" no request yet; "start" generator created, not yet
\* run; "y74" ... "y246" suspended at the yield of that line; "a117"
\* suspended awaiting the next record; "closed".
Suspended == {"y74", "y105", "y113", "a117", "y188", "y201", "y209", "y246"}

RECURSIVE TotalPulled(_)
TotalPulled(S) ==
  IF S = {} THEN 0
  ELSE LET s == CHOOSE x \in S : TRUE
       IN  Len(pulled[s]) + TotalPulled(S \ {s})

NoSessions ==
  /\ pc = [s \in Sessions |-> "idle"]
  /\ symbol_list = [s \in Sessions |-> <<>>]
  /\ emitted = [s \in Sessions |-> <<>>]
  /\ pulled = [s \in Sessions |-> <<>>]
  /\ client = [s \in Sessions |-> "none"]
  /\ subscribeCalls = [s \in Sessions |-> 0]
  /\ raised = [s \in Sessions |-> [where |-> "none"]]
  /\ exit = [s \in Sessions |-> "none"]

Init ==
  /\ DATABENTO_API_KEY \in Keys
  /\ NoSessions
  /\ record_in = PyNone
  /\ result = PyNone
  /\ replay = PyNone
  /\ error_in = PyNone
  /\ detailed_error = PyNone

Raised(s, where, msg) ==
  raised' = [raised EXCEPT ![s] = [where |-> where, msg |-> msg]]

\* mutant: an event is put in front of the events already written
EmitInFront(s, data, rec) ==
  emitted' = [emitted EXCEPT ![s] = <<[data |-> data, rec |-> rec]>> \o @]
\* mutant: the events of all sessions go through one shared buffer
EmitToAll(s, data, rec) ==
  emitted' = [t \in Sessions |-> Append(emitted[t], [data |-> data, rec |-> rec])]
Emit(s, data, rec) ==
  emitted' = [emitted EXCEPT ![s] = Append(@, [data |-> data, rec |-> rec])]

\* stream_prices, lines 289-313
StreamPrices(s) ==
  /\ pc[s] = "idle"
  /\ \E symbols \in Queries :
       IF SymbolList(symbols) = <<>>
       THEN /\ pc' = [pc EXCEPT ![s] = "closed"]
            /\ exit' = [exit EXCEPT ![s] = "http400"]
            /\ UNCHANGED symbol_list
       ELSE /\ pc' = [pc EXCEPT ![s] = "start"]
            /\ symbol_list' = [symbol_list EXCEPT ![s] = SymbolList(symbols)]
            /\ UNCHANGED exit
  /\ UNCHANGED <<DATABENTO_API_KEY, emitted, pulled, client, subscribeCalls, raised>>
  /\ UNCHANGED normVars

\* Outcomes of a call into the upstream collaborator: it returns, or it
\* raises with one of the messages.
CallOutcomes == {[ok |-> TRUE]} \cup {[ok |-> FALSE, msg |-> m] : m \in Messages}

\* stream_price_data from its first line to its first yield, lines 66-105
\* (and the outer handler, lines 211-246, when a call raises)
Begin(s) ==
  /\ pc[s] = "start"
  /\ IF ~Truthy(DATABENTO_API_KEY)
     THEN /\ Emit(s, ConfigErrorData, 0)
          /\ pc' = [pc EXCEPT ![s] = "y74"]
          /\ UNCHANGED <<client, subscribeCalls, raised>>
     ELSE \E live \in CallOutcomes :
            IF ~live.ok
            THEN /\ Raised(s, "live", live.msg)
                 /\ Emit(s, DetailedError(live.msg), 0)
                 /\ pc' = [pc EXCEPT ![s] = "y246"]
                 /\ client' = [client EXCEPT ![s] = "failed"]
                 /\ UNCHANGED subscribeCalls
            ELSE \E sub \in CallOutcomes :
                 /\ subscribeCalls' = [subscribeCalls EXCEPT ![s] = @ + 1]
                 /\ IF ~sub.ok
                    THEN /\ Raised(s, "subscribe", sub.msg)
                         /\ Emit(s, DetailedError(sub.msg), 0)
                         /\ pc' = [pc EXCEPT ![s] = "y246"]
                         /\ client' = [client EXCEPT ![s] = "created"]
                    ELSE /\ Emit(s, StatusData(symbol_list[s]), 0)
                         /\ pc' = [pc EXCEPT ![s] = "y105"]
                         /\ client' = [client EXCEPT ![s] = "subscribed"]
                         /\ UNCHANGED raised
  /\ UNCHANGED <<DATABENTO_API_KEY, symbol_list, pulled, exit>>
  /\ UNCHANGED normVars

\* The consumer asks for the next event: the generator runs from the yield
\* it is suspended at to its next suspension point.
\* mutant: Test is not written
AfterYieldSkipsTest(line) ==
  CASE line \in {"y105", "y113", "y188", "y201"} -> "a117"
    [] line \in {"y74", "y209", "y246"} -> "closed"

\* mutant: a per-record error ends the generator
AfterYieldStopsOnRecordError(line) ==
  CASE line = "y105" -> "y113"
    [] line \in {"y113", "y188"} -> "a117"
    [] line \in {"y74", "y201", "y209", "y246"} -> "closed"

\* mutant: the loop goes on after an iteration error
AfterYieldLoopsAfterIterationError(line) ==
  CASE line = "y105" -> "y113"
    [] line \in {"y113", "y188", "y201", "y209"} -> "a117"
    [] line \in {"y74", "y246"} -> "closed"

\* mutant: after the error of the outer handler the generator starts over
AfterYieldRetries(line) ==
  CASE line = "y105" -> "y113"
    [] line \in {"y113", "y188", "y201"} -> "a117"
    [] line \in {"y74", "y209"} -> "closed"
    [] line = "y246" -> "start"
\* Where the generator suspends next when it is resumed at a yield: after
\* Status it writes Test (line 113); after Test, a Tick or a per-record
\* error it awaits the next record (line 117); after the yields of lines
\* 74, 209 and 246 it runs to its end.
AfterYield(line) ==
  CASE line = "y105" -> "y113"
    [] line \in {"y113", "y188", "y201"} -> "a117"
    [] line \in {"y74", "y209", "y246"} -> "closed"

Resume(s) ==
  /\ pc[s] \in Suspended \ {"a117"}
  /\ pc' = [pc EXCEPT ![s] = AfterYield(pc[s])]
  /\ IF AfterYield(pc[s]) = "y113"
     THEN Emit(s, TestData, 0)
     ELSE UNCHANGED emitted
  /\ IF AfterYield(pc[s]) = "closed"
     THEN exit' = [exit EXCEPT ![s] = "returned"]
     ELSE UNCHANGED exit
  /\ UNCHANGED <<DATABENTO_API_KEY, symbol_list, pulled, client, subscribeCalls, raised>>
  /\ UNCHANGED normVars

\* async for record in client: the upstream delivers a record and the loop
\* body runs on it, lines 117-201
Deliver(s) ==
  /\ pc[s] = "a117"
  /\ TotalPulled(Sessions) < MaxRecords
  /\ \E record \in SessionRecords :
       LET r == ProcessRecord(record)
           i == Len(pulled[s]) + 1
       IN  /\ pulled' = [pulled EXCEPT ![s] = Append(@, record)]
           /\ CASE r.out = "continue" -> UNCHANGED <<pc, emitted, raised>>
                [] r.out = "tick" ->
                     /\ Emit(s, r.data, i)
                     /\ pc' = [pc EXCEPT ![s] = "y188"]
                     /\ UNCHANGED raised
                [] r.out = "raise" ->
                     /\ Raised(s, "record", r.msg)
                     /\ Emit(s, RecordErrorData(r.msg), i)
                     /\ pc' = [pc EXCEPT ![s] = "y201"]
  /\ UNCHANGED <<DATABENTO_API_KEY, symbol_list, client, subscribeCalls, exit>>
  /\ UNCHANGED normVars

\* mutant: the end of the upstream sequence is not noticed
EndOfStreamIgnored(s) ==
  /\ pc[s] = "a117"
  /\ UNCHANGED sessionVars
  /\ UNCHANGED normVars
\* the upstream sequence ends: the loop exits and the generator returns
EndOfStream(s) ==
  /\ pc[s] = "a117"
  /\ pc' = [pc EXCEPT ![s] = "closed"]
  /\ exit' = [exit EXCEPT ![s] = "exhausted"]
  /\ UNCHANGED <<DATABENTO_API_KEY, symbol_list, emitted, pulled, client, subscribeCalls, raised>>
  /\ UNCHANGED normVars

\* the iteration itself raises, lines 203-209
IterationError(s) ==
  /\ pc[s] = "a117"
  /\ \E msg \in IterationMessages :
       /\ Raised(s, "iteration", msg)
       /\ Emit(s, IterationErrorData(msg), 0)
       /\ pc' = [pc EXCEPT ![s] = "y209"]
  /\ UNCHANGED <<DATABENTO_API_KEY, symbol_list, pulled, client, subscribeCalls, exit>>
  /\ UNCHANGED normVars

\* mutant: the outer handler catches the disconnect and reports it
DisconnectCaughtByHandler(s) ==
  /\ pc[s] \in Suspended \cup {"start"}
  /\ pc' = [pc EXCEPT ![s] = "closed"]
  /\ exit' = [exit EXCEPT ![s] = "disconnected"]
  /\ Emit(s, DetailedError(MsgTimeout), 0)
  /\ UNCHANGED <<DATABENTO_API_KEY, symbol_list, pulled, client, subscribeCalls, raised>>
  /\ UNCHANGED normVars
\* The client goes away: GeneratorExit / CancelledError is raised at the
\* suspension point, passes every "except Exception", and the finally
\* clause of line 247 runs.
Disconnect(s) ==
  /\ pc[s] \in Suspended \cup {"start"}
  /\ pc' = [pc EXCEPT ![s] = "closed"]
  /\ exit' = [exit EXCEPT ![s] = "disconnected"]
  /\ UNCHANGED <<DATABENTO_API_KEY, symbol_list, emitted, pulled, client, subscribeCalls, raised>>
  /\ UNCHANGED normVars

Next ==
  \E s \in Sessions :
    \/ StreamPrices(s)
    \/ Begin(s)
    \/ Resume(s)
    \/ Deliver(s)
    \/ EndOfStream(s)
    \/ IterationError(s)
    \/ Disconnect(s)

Spec == Init /\ [][Next]_vars

\* ------------------------------------------- one session to its end
\* One request followed to its end.  The generator is started and resumed
\* as long as the client is there (the response body is read by one task
\* that asks for the next event as soon as it has written the last), and
\* the upstream sequence is finite: once no record is left, it ends.
LiveSessions == {1}

NextLive ==
  \E s \in LiveSessions :
    \/ StreamPrices(s)
    \/ Begin(s)
    \/ Resume(s)
    \/ Deliver(s)
    \/ EndOfStream(s)
    \/ IterationError(s)
    \/ Disconnect(s)

Fairness ==
  \A s \in LiveSessions :
    /\ WF_vars(Begin(s))
    /\ WF_vars(Resume(s))
    /\ WF_vars(EndOfStream(s))

SpecLive == Init /\ [][NextLive]_vars /\ Fairness
\* ---------------------------------------- the loop body on its own
\* The loop body applied to one record drawn from a wide set of records,
\* then applied again to a record whose raw prices are the prices it
\* decoded.

\* Largest decimal exponent of a raw integer price.
MaxExp == 15
\* Most decimal places of a raw float price.
MaxPlaces == 2

PriceMantissas == {-5, 1, 2, 1025, 450025}

RawNumbers ==
  {PyInt(m, e) : m \in PriceMantissas, e \in 0..MaxExp}
    \cup {PyFloat(m, 0 - k) : m \in PriceMantissas, k \in 1..MaxPlaces}

RawPrices == RawNumbers \cup {PyInt(0, 0), PyNone, Absent, PyStr("n/a")}

RawSizes ==
  {Absent, PyNone, PyInt(0, 0), PyInt(3, 0), PyInt(-2, 0), PyFloat(5, -1),
   PyFloat(27, -1), PyStr("n/a")}

RecordTypes == {"SymbolMappingMsg", "MBP1Msg", "MBPMsg", "TradeMsg", "SystemMsg"}

\* records that differ in which attributes they have
ShapeRecords ==
  {Record(type, symbol, instrument_id, ts_event, hd, levels) :
     type \in RecordTypes,
     symbol \in {Absent, PyStr("ESZ5")},
     instrument_id \in {Absent, PyInt(7, 0)},
     ts_event \in {Absent, PyInt(101, 0)},
     hd \in {Absent, Hd(Absent), Hd(PyInt(202, 0))},
     levels \in {Absent, PyNone, Levels(<<>>),
                 Levels(<<Level(PyInt(450025, 7), PyNone, PyInt(3, 0), Absent)>>)}}

QuoteWithLevel(level) ==
  Record("MBP1Msg", Absent, PyInt(7, 0), PyInt(101, 0), Hd(PyInt(202, 0)),
         Levels(<<level>>))

\* records that differ in the prices of their first level
PriceRecords ==
  {QuoteWithLevel(Level(bid_px, ask_px, PyInt(3, 0), PyInt(4, 0))) :
     bid_px \in RawPrices, ask_px \in RawPrices}

\* records that differ in the sizes of their first level
SizeRecords ==
  {QuoteWithLevel(Level(PyInt(450025, 7), PyFloat(45005, -1), bid_sz, ask_sz)) :
     bid_sz \in RawSizes, ask_sz \in RawSizes}

InitNormalize ==
  /\ DATABENTO_API_KEY = ValidKey
  /\ NoSessions
  /\ record_in \in ShapeRecords \cup PriceRecords \cup SizeRecords
  /\ result = PyNone
  /\ replay = PyNone
  /\ error_in = PyNone
  /\ detailed_error = PyNone

\* the loop body, lines 118-201, on record_in
Normalize1 ==
  /\ result = PyNone
  /\ result' = ProcessRecord(record_in)
  /\ UNCHANGED <<record_in, replay, error_in, detailed_error>>
  /\ UNCHANGED sessionVars

\* a Tick's decoded prices fed back as the raw prices of the same record
Redecode ==
  /\ result # PyNone
  /\ result.out = "tick"
  /\ HasLevel(record_in)
  /\ replay = PyNone
  /\ LET level == record_in.levels.items[1]
          again == [level EXCEPT !.bid_px = result.data.bid_price,
                                 !.ask_px = result.data.ask_price]
      IN  replay' = ProcessRecord([record_in EXCEPT !.levels = Levels(<<again>>)])
  /\ UNCHANGED <<record_in, result, error_in, detailed_error>>
  /\ UNCHANGED sessionVars

NextNormalize ==
  \/ Normalize1
  \/ Redecode

SpecNormalize == InitNormalize /\ [][NextNormalize]_vars

\* ------------------------------------ the classification on its own
\* The classification of lines 212-244 applied to messages put together
\* from a prefix and two parts, in either order, joined by ": ".
PartNone == <<>>
PartAuthUpper == <<"A","U","T","H","E","N","T","I","C","A","T","I","O","N"," ","F","A","I","L","E","D">>
PartCramUpper == <<"c","o","n","n","e","c","t","i","o","n"," ","C","R","A","M">>
PartAuthShort == <<"a","u","t","h"," ","f","a","i","l","e","d">>
PartCramSplit == <<"c","r"," ","a","m">>
PartAuthTwoSpaces == <<"a","u","t","h","e","n","t","i","c","a","t","i","o","n"," "," ","f","a","i","l","e","d">>
PartNoneTypeQuoted == <<"N","o","n","e","T","y","p","e">>
PartAwaitLower == <<"c","a","n","n","o","t"," ","a","w","a","i","t">>
PartAwaitUpper == <<"A","W","A","I","T">>
PartNoneTypeSplit == <<"n","o","n","e"," ","t","y","p","e">>
PartAwaitSplit == <<"a"," ","w","a","i","t">>
PrefixError == <<"E","r","r","o","r",":"," ">>
Separator == <<":"," ">>

FirstParts ==
  {PartNone, MsgAuthMixed, PartAuthUpper, MsgCram, PartCramUpper, PartAuthShort,
   PartCramSplit, PartAuthTwoSpaces, MsgTimeout}
SecondParts ==
  {PartNone, MsgNoneType, PartNoneTypeQuoted, PartAwaitLower, PartAwaitUpper,
   PartNoneTypeSplit, PartAwaitSplit}

ErrorInputs ==
  [first : FirstParts, second : SecondParts, prefix : {PartNone, PrefixError},
   firstLeads : BOOLEAN]

\* str(e) of the exception
ErrorMessage(in) ==
  in.prefix \o (IF in.firstLeads
                THEN in.first \o Separator \o in.second
                ELSE in.second \o Separator \o in.first)

InitClassify ==
  /\ DATABENTO_API_KEY = ValidKey
  /\ NoSessions
  /\ record_in = PyNone
  /\ result = PyNone
  /\ replay = PyNone
  /\ error_in \in ErrorInputs
  /\ detailed_error = PyNone

\* lines 212-244 on the message of error_in
Classify ==
  /\ detailed_error = PyNone
  /\ detailed_error' = DetailedError(ErrorMessage(error_in))
  /\ UNCHANGED <<record_in, result, replay, error_in>>
  /\ UNCHANGED sessionVars

NextClassify ==
  \/ Classify

SpecClassify == InitClassify /\ [][NextClassify]_vars

\* ===================================================== properties
\* What a client sees of an event: its kind, by the keys of the JSON object.
EventKind(data) ==
  IF "status" \in DOMAIN data THEN "Status"
  ELSE IF "test" \in DOMAIN data THEN "Test"
  ELSE IF "error" \in DOMAIN data THEN "Error"
  ELSE "Tick"

\* The failure category an Error event stands for, by its "error" text.
ErrorClass(data) ==
  CASE data.error = "DATABENTO_API_KEY environment variable not set" -> "ConfigurationFailure"
    [] data.error = "DataBento Authentication Failed" -> "AuthenticationFailure"
    [] data.error = "DataBento Client Initialization Failed" -> "ClientInitializationFailure"
    [] data.error = "DataBento API error: " -> "GenericUpstreamFailure"
    [] data.error = "Record processing error: " -> "RecordProcessingFailure"
    [] OTHER -> "Unclassified"

IsError(ev, class) == EventKind(ev.data) = "Error" /\ ErrorClass(ev.data) = class

\* positions of the events written for the i-th record of session s
EventsOf(s, i) == {k \in 1..Len(emitted[s]) : emitted[s][k].rec = i}

\* positions of the fatal Error events of session s
FatalEvents(s) ==
  {k \in 1..Len(emitted[s]) :
     EventKind(emitted[s][k].data) = "Error" /\ emitted[s][k].rec = 0}

TickEvents(s) ==
  {k \in 1..Len(emitted[s]) : EventKind(emitted[s][k].data) = "Tick"}

IsQuoteTrade(record) == record.type \in {"MBP1Msg", "MBPMsg", "TradeMsg"}

QuoteTradesPulled(s) == {i \in 1..Len(pulled[s]) : IsQuoteTrade(pulled[s][i])}

LevelAbsent(record) ==
  \/ record.levels = Absent
  \/ record.levels = PyNone
  \/ record.levels.items = <<>>

\* C1: a session whose subscription succeeded has written Status (with the
\* requested symbols) first, Test second and only Tick/Error events after
\* them; a record is pulled only after both were written, and Test is
\* missing only while the session is suspended at the Status yield or when
\* the client went away there.
C1_StatusThenTest ==
  \A s \in Sessions :
    client[s] = "subscribed" =>
      LET ev == emitted[s]
      IN  /\ Len(ev) >= 1
          /\ EventKind(ev[1].data) = "Status"
          /\ ev[1].data.status = "connected"
          /\ ev[1].data.symbols = symbol_list[s]
          /\ Len(ev) >= 2 => EventKind(ev[2].data) = "Test"
          /\ \A k \in 3..Len(ev) : EventKind(ev[k].data) \in {"Tick", "Error"}
          /\ Len(ev) = 1 => pc[s] = "y105" \/ exit[s] = "disconnected"
          /\ pulled[s] # <<>> => Len(ev) >= 2

C1_Witness ==
  \E s \in Sessions :
    /\ DATABENTO_API_KEY = ValidKey
    /\ client[s] = "subscribed"
    /\ Len(symbol_list[s]) = 2
    /\ Len(emitted[s]) >= 3
    /\ EventKind(emitted[s][3].data) = "Tick"

\* C2: a session run with a missing or placeholder credential has written
\* exactly one event, a ConfigurationFailure Error, and has neither created
\* an upstream client nor called subscribe.
C2_NoCredentialConfigError ==
  \A s \in Sessions :
    /\ DATABENTO_API_KEY \in {PyNone, PyStr(""), Placeholder}
    /\ emitted[s] # <<>>
    => /\ Len(emitted[s]) = 1
       /\ IsError(emitted[s][1], "ConfigurationFailure")
       /\ client[s] = "none"
       /\ subscribeCalls[s] = 0

\* C3: when the iteration raised with a message containing "authentication
\* failed" in any letter case, the last event is an AuthenticationFailure
\* Error with a non-empty list of remediation steps.
C3_IterationAuthClassified ==
  \A s \in Sessions :
    /\ raised[s].where = "iteration"
    /\ Contains(Lower(raised[s].msg), AuthenticationFailedText)
    => LET last == emitted[s][Len(emitted[s])]
       IN  /\ IsError(last, "AuthenticationFailure")
           /\ "solutions" \in DOMAIN last.data
           /\ Len(last.data.solutions) > 0

\* the records whose processing raises: a QuoteTrade record without hd, or
\* with a first level holding a price or size that is not a number
NotNumeric(v) == v \notin {Absent, PyNone} /\ v.t \notin {"int", "float"}
ProcessingRaises(record) ==
  /\ IsQuoteTrade(record)
  /\ \/ record.hd = Absent
     \/ /\ ~LevelAbsent(record)
        /\ \E f \in {"bid_px", "ask_px", "bid_sz", "ask_sz"} :
             NotNumeric(record.levels.items[1][f])

\* C4: a record whose processing raises adds exactly one
\* RecordProcessingFailure Error event for that record and leaves the
\* session at the yield of line 201, from where it goes on to await the
\* next record (or the client goes away); a QuoteTrade record whose
\* processing does not raise adds its Tick, whatever came before.
C4_Step ==
  \A s \in Sessions :
    /\ pulled'[s] # pulled[s] =>
         LET i == Len(pulled'[s])
             record == pulled'[s][i]
         IN  /\ pulled'[s] = Append(pulled[s], record)
             /\ ProcessingRaises(record) =>
                  /\ Len(emitted'[s]) = Len(emitted[s]) + 1
                  /\ SubSeq(emitted'[s], 1, Len(emitted[s])) = emitted[s]
                  /\ IsError(emitted'[s][Len(emitted'[s])], "RecordProcessingFailure")
                  /\ emitted'[s][Len(emitted'[s])].rec = i
                  /\ pc'[s] = "y201"
             /\ IsQuoteTrade(record) /\ ~ProcessingRaises(record) =>
                  /\ Len(emitted'[s]) = Len(emitted[s]) + 1
                  /\ SubSeq(emitted'[s], 1, Len(emitted[s])) = emitted[s]
                  /\ EventKind(emitted'[s][Len(emitted'[s])].data) = "Tick"
                  /\ emitted'[s][Len(emitted'[s])].rec = i
    /\ pc[s] = "y201" /\ pc'[s] # "y201" =>
         pc'[s] = "a117" \/ exit'[s] = "disconnected"

C4_RecordErrorContinues == [][C4_Step]_vars

C4_Witness ==
  \E s \in Sessions :
    /\ Len(pulled[s]) >= 2
    /\ \E j \in EventsOf(s, 1) : IsError(emitted[s][j], "RecordProcessingFailure")
    /\ \E k \in EventsOf(s, 2) : EventKind(emitted[s][k].data) = "Tick"

\* C5: every QuoteTrade record without a first level has exactly one event,
\* a Tick whose bid_price, ask_price, bid_size and ask_size are all None.
C5_AbsentLevelTick ==
  \A s \in Sessions :
    \A i \in 1..Len(pulled[s]) :
      IsQuoteTrade(pulled[s][i]) /\ LevelAbsent(pulled[s][i]) =>
        /\ Cardinality(EventsOf(s, i)) = 1
        /\ \A k \in EventsOf(s, i) :
             /\ EventKind(emitted[s][k].data) = "Tick"
             /\ emitted[s][k].data.bid_price = PyNone
             /\ emitted[s][k].data.ask_price = PyNone
             /\ emitted[s][k].data.bid_size = PyNone
             /\ emitted[s][k].data.ask_size = PyNone

\* C6: a record that is not a QuoteTrade record (SymbolMappingMsg or any
\* unhandled type) has no event, the session still awaits the next record
\* after it, and there are never more Ticks than QuoteTrade records pulled.
C6_Inv ==
  \A s \in Sessions :
    /\ \A i \in 1..Len(pulled[s]) :
         ~IsQuoteTrade(pulled[s][i]) => EventsOf(s, i) = {}
    /\ Cardinality(TickEvents(s)) <= Cardinality(QuoteTradesPulled(s))

C6_Step ==
  \A s \in Sessions :
    pulled'[s] # pulled[s] /\ ~IsQuoteTrade(pulled'[s][Len(pulled'[s])]) =>
      /\ emitted'[s] = emitted[s]
      /\ pc'[s] = "a117"
      /\ exit'[s] = "none"

C6_NoTickForOtherRecords == []C6_Inv /\ [][C6_Step]_vars

C6_Witness ==
  \E s \in Sessions :
    /\ Len(pulled[s]) >= 2
    /\ pulled[s][1].type = "SymbolMappingMsg"
    /\ pulled[s][2].type = "SystemMsg"
    /\ Len(emitted[s]) = 2
    /\ pc[s] = "a117"

\* a fatal failure has happened in session s
FatalFailure(s) ==
  \/ raised[s].where \in {"live", "subscribe", "iteration"}
  \/ ~Truthy(DATABENTO_API_KEY) /\ emitted[s] # <<>>

\* C9: a fatal failure leaves exactly one fatal Error event, which is the
\* last event of the session, and from then on the session writes nothing,
\* pulls nothing and can only end.
C9_Inv ==
  \A s \in Sessions :
    /\ FatalFailure(s) <=> FatalEvents(s) # {}
    /\ FatalEvents(s) # {} =>
         /\ FatalEvents(s) = {Len(emitted[s])}
         /\ pc[s] \in {"y74", "y209", "y246", "closed"}

C9_Step ==
  \A s \in Sessions :
    FatalEvents(s) # {} =>
      /\ emitted'[s] = emitted[s]
      /\ pulled'[s] = pulled[s]
      /\ pc'[s] \in {pc[s], "closed"}

C9_OneFatalErrorThenClosed == []C9_Inv /\ [][C9_Step]_vars

C9_Witness ==
  \E s \in Sessions :
    /\ raised[s].where = "iteration"
    /\ pulled[s] # <<>>
    /\ pc[s] = "closed"
    /\ exit[s] = "returned"

\* the event time the fallback chain names for a record
ChainTimestamp(record) ==
  IF record.ts_event # Absent THEN Str(record.ts_event)
  ELSE IF record.hd # Absent /\ record.hd.ts_event # Absent THEN Str(record.hd.ts_event)
  ELSE Str(WallClock)

\* C10: every QuoteTrade record has exactly one event, a Tick, whose
\* timestamp is the record-level event time if present, else the header's
\* event time if present, else the wall-clock time.
C10_TickWithChainTimestamp ==
  \A s \in Sessions :
    \A i \in 1..Len(pulled[s]) :
      IsQuoteTrade(pulled[s][i]) =>
        /\ Cardinality(EventsOf(s, i)) = 1
        /\ \A k \in EventsOf(s, i) :
             /\ EventKind(emitted[s][k].data) = "Tick"
             /\ emitted[s][k].data.timestamp = ChainTimestamp(pulled[s][i])

\* ---- price decoding, under SpecNormalize
RECURSIVE Digits(_)
Digits(m) == IF m < 10 THEN 1 ELSE 1 + Digits(m \div 10)

\* m * 10^e > 10^k, for a number in normal form
AbovePowerOfTen(x, k) ==
  /\ x.m > 0
  /\ \/ Digits(x.m) + x.e > k + 1
     \/ Digits(x.m) + x.e = k + 1 /\ x.m # 1

SameNumber(a, b) == IsNumber(a) /\ IsNumber(b) /\ a.m = b.m /\ a.e = b.e

\* r / 1e9 above 1,000,000, r itself up to it
RuleHolds(raw, price) ==
  IF AbovePowerOfTen(raw, 6)
  THEN IsNumber(price) /\ price.m = raw.m /\ price.e = raw.e - 9
  ELSE SameNumber(price, raw)

Decoded == result # PyNone /\ result.out = "tick" /\ HasLevel(record_in)
RawBid == record_in.levels.items[1].bid_px
RawAsk == record_in.levels.items[1].ask_px

\* C7: in a Tick built from a level, each present raw price r is decoded
\* to r / 1e9 if r > 1,000,000 and to r itself otherwise, bid and ask each
\* by its own raw value: 4500250000000 gives 4500.25, 102.5 gives 102.5 and
\* 1000000 gives 1000000.
C7_ThresholdRule ==
  Decoded =>
    /\ IsNumber(RawBid) => RuleHolds(RawBid, result.data.bid_price)
    /\ IsNumber(RawAsk) => RuleHolds(RawAsk, result.data.ask_price)
    /\ RawBid = PyInt(450025, 7) => result.data.bid_price = PyFloat(450025, -2)
    /\ RawAsk = PyInt(450025, 7) => result.data.ask_price = PyFloat(450025, -2)
    /\ RawBid = PyFloat(1025, -1) => result.data.bid_price = PyFloat(1025, -1)
    /\ RawAsk = PyFloat(1025, -1) => result.data.ask_price = PyFloat(1025, -1)
    /\ RawBid = PyInt(1, 6) => SameNumber(result.data.bid_price, PyInt(1, 6))
    /\ RawAsk = PyInt(1, 6) => SameNumber(result.data.ask_price, PyInt(1, 6))

C7_Witness ==
  /\ Decoded
  /\ RawBid = PyInt(450025, 7)
  /\ RawAsk = PyInt(1, 6)
  /\ result.data.bid_price = PyFloat(450025, -2)
  /\ SameNumber(result.data.ask_price, PyInt(1, 6))

Redecoded == Decoded /\ replay # PyNone /\ replay.out = "tick"

\* C8 as stated: decoding a decoded price again returns it unchanged, for
\* every raw price.
C8_Idempotent ==
  Redecoded =>
    /\ replay.data.bid_price = result.data.bid_price
    /\ replay.data.ask_price = result.data.ask_price

\* C8 as amended: decoding a decoded price again returns it unchanged for
\* every raw price of at most 10^15 (whose decoded value is at most
\* 1,000,000).
C8_IdempotentUpTo1e15 ==
  Redecoded =>
    /\ IsNumber(RawBid) /\ ~AbovePowerOfTen(RawBid, 15) =>
         replay.data.bid_price = result.data.bid_price
    /\ IsNumber(RawAsk) /\ ~AbovePowerOfTen(RawAsk, 15) =>
         replay.data.ask_price = result.data.ask_price

C8_Witness ==
  /\ Redecoded
  /\ RawBid = PyInt(450025, 7)
  /\ RawAsk = PyInt(1, 15)
  /\ replay.data.bid_price = PyFloat(450025, -2)
  /\ replay.data.ask_price = PyFloat(1, 6)

RawBidSize == record_in.levels.items[1].bid_sz
RawAskSize == record_in.levels.items[1].ask_sz

\* what the upstream's size field holds: nothing, or an unsigned integer
MissingSize(raw) == raw = Absent \/ raw = PyNone
UnsignedSize(raw) == ~MissingSize(raw) /\ raw.t = "int" /\ raw.m >= 0

PositiveInteger(size) == size.t = "int" /\ size.m > 0 /\ size.e >= 0

\* zero or absent gives None, any other unsigned integer gives itself
SizeRule(raw, size) ==
  /\ size = PyNone \/ PositiveInteger(size)
  /\ size = PyNone <=> (MissingSize(raw) \/ raw = PyInt(0, 0))
  /\ size # PyNone => size = raw

\* C11: in a Tick built from a level whose raw sizes are absent or unsigned
\* integers, bid_size and ask_size are each None or a strictly positive
\* integer: zero or absent gives None and never 0, any other size gives
\* itself, and each side is decided by its own raw size alone, whatever the
\* other side's raw size and the raw prices are.
C11_SizesNoneOrPositive ==
  Decoded =>
    /\ MissingSize(RawBidSize) \/ UnsignedSize(RawBidSize) =>
         SizeRule(RawBidSize, result.data.bid_size)
    /\ MissingSize(RawAskSize) \/ UnsignedSize(RawAskSize) =>
         SizeRule(RawAskSize, result.data.ask_size)

C11_Witness ==
  /\ Decoded
  /\ RawBidSize = PyInt(0, 0)
  /\ RawAskSize = PyInt(3, 0)
  /\ result.data.bid_size = PyNone
  /\ result.data.ask_size = PyInt(3, 0)

NoneOrNonNegative(price) == price = PyNone \/ (IsNumber(price) /\ price.m >= 0)

\* C12: in a Tick built from a level, for every raw price the upstream can
\* supply, negative ones included, bid_price and ask_price are each None or
\* a finite number that is not negative.
C12_PricesNoneOrNonNegative ==
  Decoded =>
    /\ NoneOrNonNegative(result.data.bid_price)
    /\ NoneOrNonNegative(result.data.ask_price)

\* a session exists once stream_prices has built its generator
Created(s) == pc[s] # "idle" /\ exit[s] # "http400"

\* C13: a request whose symbols parameter denotes the empty list (the empty
\* string) is rejected with a 400 error before a session is created, so
\* every created session has at least one symbol and no empty symbol.
C13_EmptyQueryRejected ==
  \A s \in Sessions :
    Created(s) =>
      /\ Len(symbol_list[s]) >= 1
      /\ \A i \in 1..Len(symbol_list[s]) : symbol_list[s][i] # <<>>

\* C14: a session that opened an upstream subscription has released it by
\* the time it is Closed, on every path: no session is Closed while its
\* subscription is still held.
C14_ReleasedWhenClosed ==
  \A s \in Sessions : pc[s] = "closed" => client[s] # "subscribed"

\* From the step in which the client of session s goes away: the session is
\* Closed, and its events and pulled records are the ones it had before.
C15_Step ==
  \A s \in Sessions :
    exit'[s] = "disconnected" =>
      /\ pc'[s] = "closed"
      /\ emitted'[s] = emitted[s]
      /\ pulled'[s] = pulled[s]

\* C15: when the client disconnects, at a yield or while the session waits
\* for the next record, the session pulls no further record and writes no
\* further event, the disconnect itself is not turned into an Error event
\* by any handler, and the session is Closed.
C15_DisconnectClosesSilently == [][C15_Step]_vars

\* one session left while it was waiting for a record (its last record
\* caused no event), another while its Status event was being written
C15_Witness ==
  \E s, t \in Sessions :
    /\ exit[s] = "disconnected" /\ pc[s] = "closed"
    /\ pulled[s] # <<>> /\ pulled[s][Len(pulled[s])] = RecMapping
    /\ Len(emitted[s]) = 2
    /\ exit[t] = "disconnected" /\ pc[t] = "closed"
    /\ Len(emitted[t]) = 1 /\ EventKind(emitted[t][1].data) = "Status"

\* the indices of the records that caused the events of session s, in the
\* order of the events
RECURSIVE CausesOf(_)
CausesOf(events) ==
  IF events = <<>> THEN <<>>
  ELSE IF events[1].rec > 0 THEN <<events[1].rec>> \o CausesOf(Tail(events))
  ELSE CausesOf(Tail(events))

\* the indices of the pulled records that the loop body answers with an
\* event, in arrival order
RECURSIVE AnsweredFrom(_, _)
AnsweredFrom(records, i) ==
  IF i > Len(records) THEN <<>>
  ELSE IF ProcessRecord(records[i]).out \in {"tick", "raise"}
       THEN <<i>> \o AnsweredFrom(records, i + 1)
       ELSE AnsweredFrom(records, i + 1)

\* The events caused by records are those of the records pulled so far that
\* cause one, one event each, in arrival order; the event of the latest
\* record is written before anything else happens.
C16_Inv ==
  \A s \in Sessions :
    /\ CausesOf(emitted[s]) = AnsweredFrom(pulled[s], 1)
    /\ \A i \in 1..Len(emitted[s]) :
         emitted[s][i].rec > 0 =>
           EventKind(emitted[s][i].data) =
             (IF ProcessRecord(pulled[s][emitted[s][i].rec]).out = "tick"
              THEN "Tick" ELSE "Error")

\* A record is pulled only while the session waits at line 117, one at a
\* time, and never while an event is being written.
C16_Step ==
  \A s \in Sessions :
    pulled'[s] # pulled[s] =>
      /\ pc[s] = "a117"
      /\ Len(pulled'[s]) = Len(pulled[s]) + 1
      /\ SubSeq(pulled'[s], 1, Len(pulled[s])) = pulled[s]

\* C16: within a session the Tick and per-record Error events appear in the
\* arrival order of the records that caused them: the event of record i is
\* written before record i+1 is pulled, a record causes at most one event,
\* and at most one record is in flight.
C16_ArrivalOrder == []C16_Inv /\ [][C16_Step]_vars

\* a Tick and then a per-record Error, caused by the first and the second
\* record of the session
C16_Witness ==
  \E s \in Sessions :
    /\ Len(pulled[s]) = 2
    /\ CausesOf(emitted[s]) = <<1, 2>>
    /\ EventKind(emitted[s][3].data) = "Tick"
    /\ EventKind(emitted[s][4].data) = "Error"

\* the session failed while creating the client or subscribing
SubscribingFailed(s) == raised[s].where \in {"live", "subscribe"}

\* The category the classifier of lines 216-245 gives a message, by the
\* indicator texts it holds.
Category(msg) ==
  IF Contains(Lower(msg), AuthenticationFailedText) \/ Contains(Lower(msg), CramText)
  THEN "AuthenticationFailure"
  ELSE IF Contains(Lower(msg), NoneTypeText) \/ Contains(Lower(msg), AwaitText)
       THEN "ClientInitializationFailure"
       ELSE "GenericUpstreamFailure"

C18_Inv ==
  \A s \in Sessions :
    /\ subscribeCalls[s] <= 1
    /\ subscribeCalls[s] = 1 => Truthy(DATABENTO_API_KEY)
    /\ client[s] # "none" => Truthy(DATABENTO_API_KEY)
    /\ SubscribingFailed(s) =>
         /\ pc[s] \in {"y246", "closed"}
         /\ client[s] # "subscribed"
         /\ pulled[s] = <<>>
         /\ Len(emitted[s]) = 1

\* The failure is answered with one Error event of the category of its
\* message; a failed session is not started again, and no session
\* subscribes twice.
C18_Step ==
  \A s \in Sessions :
    /\ raised'[s] # raised[s] /\ raised'[s].where \in {"live", "subscribe"} =>
         /\ Len(emitted'[s]) = 1
         /\ EventKind(emitted'[s][1].data) = "Error"
         /\ ErrorClass(emitted'[s][1].data) = Category(raised'[s].msg)
    /\ SubscribingFailed(s) =>
         /\ raised'[s] = raised[s]
         /\ emitted'[s] = emitted[s]
         /\ subscribeCalls'[s] = subscribeCalls[s]
         /\ client'[s] = client[s]
    /\ subscribeCalls'[s] # subscribeCalls[s] =>
         /\ pc[s] = "start"
         /\ subscribeCalls[s] = 0

\* C18: a session opens at most one upstream subscription, and only after
\* the credential test of line 68 has passed.  If creating the client or
\* subscribing fails, the session writes exactly one Error event, of the
\* category the classifier gives the failure's message, writes no Status,
\* Test or Tick event, pulls no record, goes to Closed and never tries
\* again.
C18_OneSubscriptionNoRetry == []C18_Inv /\ [][C18_Step]_vars

\* a session whose subscribe call failed on authentication, now Closed
C18_Witness ==
  \E s \in Sessions :
    /\ raised[s].where = "subscribe"
    /\ subscribeCalls[s] = 1
    /\ pc[s] = "closed" /\ exit[s] = "returned"
    /\ ErrorClass(emitted[s][1].data) = "AuthenticationFailure"

\* everything a session owns
SessionState(s) ==
  <<pc[s], symbol_list[s], emitted[s], pulled[s], client[s], subscribeCalls[s],
    raised[s], exit[s]>>

\* A step changes the state of at most one session, and never the
\* credential.
C19_Step ==
  /\ DATABENTO_API_KEY' = DATABENTO_API_KEY
  /\ \A s, t \in Sessions :
       s # t /\ SessionState(s)' # SessionState(s) =>
         SessionState(t)' = SessionState(t)

\* the events a session's own records account for
RECURSIVE RecordEvents(_, _)
RecordEvents(records, i) ==
  IF i > Len(records) THEN <<>>
  ELSE LET r == ProcessRecord(records[i])
       IN  (CASE r.out = "tick" -> <<[data |-> r.data, rec |-> i]>>
              [] r.out = "raise" -> <<[data |-> RecordErrorData(r.msg), rec |-> i]>>
              [] OTHER -> <<>>)
           \o RecordEvents(records, i + 1)

\* the event a session writes in a step, by what the session itself holds
\* before and after the step: its symbols, its latest record, its failure
OwnEvent(s) ==
  CASE pc[s] = "start" /\ ~Truthy(DATABENTO_API_KEY) ->
         [data |-> ConfigErrorData, rec |-> 0]
    [] pc[s] = "start" /\ Truthy(DATABENTO_API_KEY) /\ raised'[s].where = "none" ->
         [data |-> StatusData(symbol_list[s]), rec |-> 0]
    [] pc[s] = "start" /\ Truthy(DATABENTO_API_KEY) /\ raised'[s].where # "none" ->
         [data |-> DetailedError(raised'[s].msg), rec |-> 0]
    [] pc[s] = "y105" -> [data |-> TestData, rec |-> 0]
    [] pc[s] = "a117" /\ pulled'[s] = pulled[s] ->
         [data |-> IterationErrorData(raised'[s].msg), rec |-> 0]
    [] pc[s] = "a117" /\ pulled'[s] # pulled[s] ->
         LET i == Len(pulled'[s])
             r == ProcessRecord(pulled'[s][i])
         IN  IF r.out = "tick" THEN [data |-> r.data, rec |-> i]
             ELSE [data |-> RecordErrorData(r.msg), rec |-> i]
    [] OTHER -> PyNone

\* What a session writes is given by the credential, its own symbols, its
\* own records and its own failure: nothing of another session enters.
C19_OwnEvents ==
  \A s \in Sessions :
    emitted'[s] # emitted[s] => emitted'[s] = Append(emitted[s], OwnEvent(s))

\* C19: with two sessions running under any interleaving, the events of a
\* session depend only on its own symbols and its own upstream records; a
\* failure or disconnect of one session changes neither the state nor the
\* events of the other; the credential is never written after start-up.
C19_SessionsIndependent == [][C19_Step /\ C19_OwnEvents]_vars

\* one session has failed in its iteration and is Closed, the other one
\* has written a Tick and is still streaming
C19_Witness ==
  \E s, t \in Sessions :
    /\ raised[s].where = "iteration" /\ pc[s] = "closed"
    /\ pc[t] = "a117"
    /\ \E i \in 1..Len(emitted[t]) : EventKind(emitted[t][i].data) = "Tick"
    /\ symbol_list[s] # symbol_list[t]

\* the parts that hold an indicator text of either case
AuthParts == {MsgAuthMixed, PartAuthUpper, MsgCram, PartCramUpper}
InitParts == {MsgNoneType, PartNoneTypeQuoted, PartAwaitLower, PartAwaitUpper}

\* the category the message of error_in must get, by the parts it is made of
ExpectedCategory ==
  IF error_in.first \in AuthParts THEN "AuthenticationFailure"
  ELSE IF error_in.second \in InitParts THEN "ClientInitializationFailure"
  ELSE "GenericUpstreamFailure"

Classified == error_in # PyNone /\ detailed_error # PyNone

\* The error object is of exactly the expected category; the first two
\* categories carry their remediation steps, the third the message itself
\* and no steps.
C17_Inv ==
  Classified =>
    /\ ErrorClass(detailed_error) = ExpectedCategory
    /\ ExpectedCategory = "AuthenticationFailure" =>
         detailed_error.solutions = AuthSolutions
    /\ ExpectedCategory = "ClientInitializationFailure" =>
         detailed_error.solutions = InitSolutions
    /\ ExpectedCategory = "GenericUpstreamFailure" =>
         /\ "solutions" \notin DOMAIN detailed_error
         /\ detailed_error.arg = ErrorMessage(error_in)

\* classifying writes the error object and nothing else
C17_Step ==
  detailed_error' # detailed_error =>
    /\ error_in' = error_in
    /\ UNCHANGED sessionVars
    /\ UNCHANGED <<record_in, result, replay>>

\* C17: the classification gives every message exactly one category, by
\* precedence: AuthenticationFailure if the message holds 'authentication
\* failed' or 'cram' in any case; else ClientInitializationFailure if it
\* holds 'nonetype' or 'await'; else GenericUpstreamFailure.  A message
\* holding indicators of both kinds is an AuthenticationFailure, only the
\* first two categories carry remediation steps, and classifying has no
\* effect but its result.
C17_ClassificationByPrecedence == []C17_Inv /\ [][C17_Step]_vars

\* a message with an initialisation indicator in front of an
\* authentication indicator, classified as AuthenticationFailure
C17_Witness ==
  /\ Classified
  /\ error_in.first = PartCramUpper
  /\ error_in.second = PartAwaitLower
  /\ ~error_in.firstLeads
  /\ ErrorClass(detailed_error) = "AuthenticationFailure"

Streaming(s) == pc[s] \in {"y105", "y113", "a117", "y188", "y201"}

\* A session whose upstream sequence has ended is Closed, and its events
\* are Status, Test and the events of the records delivered before the
\* end: no Error event stands for the end.
C20_Inv ==
  \A s \in Sessions :
    exit[s] = "exhausted" =>
      /\ pc[s] = "closed"
      /\ raised[s].where \in {"none", "record"}
      /\ emitted[s] =
           <<[data |-> StatusData(symbol_list[s]), rec |-> 0],
             [data |-> TestData, rec |-> 0]>> \o RecordEvents(pulled[s], 1)

\* the end of the sequence writes nothing, and nothing is written after it
C20_Step ==
  \A s \in Sessions :
    exit'[s] = "exhausted" =>
      /\ emitted'[s] = emitted[s]
      /\ pulled'[s] = pulled[s]

\* C20: a Streaming session whose upstream sequence is finite and ends
\* without raising eventually reaches Closed, and the end adds no Error
\* event: its events are exactly Status, Test and the Tick / Error events
\* of the records already delivered.
C20_EndOfStreamCloses ==
  /\ []C20_Inv
  /\ [][C20_Step]_vars
  /\ \A s \in LiveSessions : Streaming(s) ~> pc[s] = "closed"

\* the sequence ended after a Tick and a per-record Error
C20_Witness ==
  \E s \in LiveSessions :
    /\ exit[s] = "exhausted"
    /\ pc[s] = "closed"
    /\ Len(emitted[s]) = 4
    /\ EventKind(emitted[s][3].data) = "Tick"
    /\ EventKind(emitted[s][4].data) = "Error"

====
